---- MODULE Spec2Model ----
(***************************************************************************)
(* Model of generate_tx_for_signing.py: a static table of token-enable     *)
(* transactions rendered as JSON files, console snippets and curl          *)
(* commands.                                                               *)
(*                                                                         *)
(* Representation                                                          *)
(*   - a Python dict that is iterated or serialized is a sequence of       *)
(*     <<key, value>> pairs in insertion order;                            *)
(*   - a dict that is only looked up by a literal key is a record;         *)
(*   - a Python str is a TLA+ string, except tx['token'], which is a       *)
(*     sequence of one-character strings because str.lower() works on      *)
(*     characters;                                                         *)
(*   - a JSON text is the sequence of chunks json.dump hands to write();   *)
(*   - the filesystem is a function from the names of existing files to    *)
(*     their contents.                                                     *)
(***************************************************************************)
EXTENDS Integers, Sequences, FiniteSets, TLC

VARIABLES
    TRANSACTIONS,      \* the module-level table (a mutable global dict)
    CONTRACT_ADDRESS,  \* the module-level address string
    files,             \* working directory: filename -> content
    startFiles,        \* working directory as the current process found it
    prev,              \* how the previous process ended ("idle" if none)
    runs,              \* number of processes started so far
    pc,                \* position of the current process
    n,                 \* index of the outer loop (network)
    t,                 \* index of the inner loop (tx); 0 = header not printed
    trace              \* effects of the current process, in order

vars == <<TRANSACTIONS, CONTRACT_ADDRESS, files, startFiles, prev, runs,
          pc, n, t, trace>>

\* Number of times the script is run one after the other.
MaxRuns == 2

\* Largest number of chunks a failing write leaves in the file.
MaxPartialChunks == 1

(***************************************************************************)
(* Constant data                                                           *)
(***************************************************************************)
ContractAddressLiteral == "0x8B173c2E4C84b4bdD8c656F3d47Bc4259594Bd48"

NativeData == "0xeb0835bf0000000000000000000000000000000000000000000000000000000000000000"

ETH == <<"E", "T", "H">>
USDC == <<"U", "S", "D", "C">>
USDT == <<"U", "S", "D", "T">>

\* one item of TRANSACTIONS per network, in the order the dict literal lists them
arbitrum ==
    <<"arbitrum",
      [chainId |-> 42161, name |-> "Arbitrum One", transactions |-> <<
         [token |-> ETH,  data |-> NativeData],
         [token |-> USDC, data |-> "0xeb0835bf000000000000000000000000af88d065e77c8cc2239327c5edb3a432268e5831"],
         [token |-> USDT, data |-> "0xeb0835bf000000000000000000000000fd086bc7cd5c481dcc9c85ebe478a1c0b69fcbb9"] >>]>>

base ==
    <<"base",
      [chainId |-> 8453, name |-> "Base", transactions |-> <<
         [token |-> ETH,  data |-> NativeData],
         [token |-> USDC, data |-> "0xeb0835bf000000000000000000000000833589fcd6edb6e08f4c7c32d4f71b54bda02913"],
         [token |-> USDT, data |-> "0xeb0835bf000000000000000000000000fde4c96c8593536e31f229ea8f37b2ada2699bb2"] >>]>>

optimism ==
    <<"optimism",
      [chainId |-> 10, name |-> "Optimism", transactions |-> <<
         [token |-> ETH,  data |-> NativeData],
         [token |-> USDC, data |-> "0xeb0835bf0000000000000000000000000b2c639c533813f4aa9d7837caf62653d097ff85"],
         [token |-> USDT, data |-> "0xeb0835bf00000000000000000000000094b008aa00579c1307b0ef2c499ad98a8ce58e58"] >>]>>

\* polygon with the USDC calldata repeated under USDT
polygon_repeated ==
    <<"polygon",
      [chainId |-> 137, name |-> "Polygon", transactions |-> <<
         [token |-> ETH,  data |-> NativeData],
         [token |-> USDC, data |-> "0xeb0835bf0000000000000000000000002791bca1f2de4661ed88a30c99a7a9449aa84174"],
         [token |-> USDT, data |-> "0xeb0835bf0000000000000000000000002791bca1f2de4661ed88a30c99a7a9449aa84174"] >>]>>

polygon ==
    <<"polygon",
      [chainId |-> 137, name |-> "Polygon", transactions |-> <<
         [token |-> ETH,  data |-> NativeData],
         [token |-> USDC, data |-> "0xeb0835bf0000000000000000000000002791bca1f2de4661ed88a30c99a7a9449aa84174"],
         [token |-> USDT, data |-> "0xeb0835bf000000000000000000000000c2132d05d31c914a87c6611c10748aeb04b58e8f"] >>]>>

TransactionsLiteral == <<arbitrum, base, optimism, polygon>>

(***************************************************************************)
(* Python strings                                                          *)
(***************************************************************************)
UpperCase == <<"A","B","C","D","E","F","G","H","I","J","K","L","M",
               "N","O","P","Q","R","S","T","U","V","W","X","Y","Z">>
LowerCase == <<"a","b","c","d","e","f","g","h","i","j","k","l","m",
               "n","o","p","q","r","s","t","u","v","w","x","y","z">>

\* str.lower() on one character
lower_char(c) ==
    IF \E i \in 1..Len(UpperCase) : UpperCase[i] = c
    THEN LowerCase[CHOOSE i \in 1..Len(UpperCase) : UpperCase[i] = c]
    ELSE c

\* str.lower()
lower(s) == [i \in 1..Len(s) |-> lower_char(s[i])]

\* the text of a character sequence, as an f-string interpolates it
RECURSIVE text(_)
text(s) == IF s = <<>> THEN "" ELSE s[1] \o text(Tail(s))

(***************************************************************************)
(* Python values that reach json.dump                                      *)
(***************************************************************************)
py_str(s) == [type |-> "str", s |-> s, i |-> 0]
py_int(i) == [type |-> "int", s |-> "", i |-> i]

(***************************************************************************)
(* json.dump(obj, f, indent=2): the chunks written, in order               *)
(***************************************************************************)
chunk(kind, s, digits, indent) ==
    [kind |-> kind, s |-> s, digits |-> digits, indent |-> indent]

\* decimal digits of a non-negative int, most significant first
RECURSIVE int_repr(_)
int_repr(i) ==
    IF i < 10 THEN <<i>> ELSE Append(int_repr(i \div 10), i % 10)

\* the chunk of a str or int value
encode_value(v) ==
    IF v.type = "str" THEN chunk("string", v.s, <<>>, 0)
                      ELSE chunk("number", "", int_repr(v.i), 0)

\* key, key separator and value of the items from position k on
RECURSIVE encode_items(_, _, _)
encode_items(obj, k, indent) ==
    IF k > Len(obj) THEN <<>>
    ELSE (IF k = 1 THEN <<>> ELSE <<chunk("item_separator", "", <<>>, indent)>>)
         \o <<chunk("string", obj[k][1], <<>>, 0),
              chunk("key_separator", "", <<>>, 0),
              encode_value(obj[k][2])>>
         \o encode_items(obj, k + 1, indent)

json_dump(obj, indent) ==
    IF obj = <<>> THEN <<chunk("empty_object", "", <<>>, 0)>>
    ELSE <<chunk("open", "", <<>>, 0), chunk("newline", "", <<>>, indent)>>
         \o encode_items(obj, 1, indent)
         \o <<chunk("newline", "", <<>>, 0), chunk("close", "", <<>>, 0)>>

(***************************************************************************)
(* Filesystem                                                              *)
(***************************************************************************)
\* open(filename, 'a'): the content is added after what the file held
write_file_append(fs, filename, content) ==
    (filename :> (IF filename \in DOMAIN fs THEN fs[filename] \o content
                                            ELSE content)) @@ fs

\* open(filename, 'w') followed by writes and close: the file holds content
write_file(fs, filename, content) == (filename :> content) @@ fs

(***************************************************************************)
(* generate_tx_json                                                        *)
(***************************************************************************)
\* the dict with value as the int 0
transaction_value_int(address, network_data, tx) ==
    << <<"to", py_str(address)>>,
       <<"value", py_int(0)>>,
       <<"data", py_str(tx.data)>>,
       <<"chainId", py_int(network_data.chainId)>> >>

\* the dict with its keys in sorted order, as sort_keys=True would dump it
transaction_sorted(address, network_data, tx) ==
    << <<"chainId", py_int(network_data.chainId)>>,
       <<"data", py_str(tx.data)>>,
       <<"to", py_str(address)>>,
       <<"value", py_str("0x0")>> >>

\* the transaction dict built for one tx of one network
transaction(address, network_data, tx) ==
    << <<"to", py_str(address)>>,
       <<"value", py_str("0x0")>>,
       <<"data", py_str(tx.data)>>,
       <<"chainId", py_int(network_data.chainId)>> >>

\* the name without .lower()
filename_of_no_lower(network_key, tx) ==
    "tx_" \o network_key \o "_" \o text(tx.token) \o ".json"

\* the name without the network key
filename_of_no_network(network_key, tx) ==
    "tx_" \o text(lower(tx.token)) \o ".json"

\* the name of the file for one tx of one network
filename_of(network_key, tx) ==
    "tx_" \o network_key \o "_" \o text(lower(tx.token)) \o ".json"

\* an inner loop that stops one tx early
next_t_early(table, i, j) ==
    IF j < Len(table[i][2].transactions) - 1 THEN j + 1 ELSE 0

\* loop position after the inner-loop iteration at (n, t)
next_n(table, i, j) ==
    IF j < Len(table[i][2].transactions) THEN i ELSE i + 1
next_t(table, i, j) ==
    IF j < Len(table[i][2].transactions) THEN j + 1 ELSE 0

\* both loops are exhausted
loops_done == n > Len(TRANSACTIONS)

\* the outer loop is at a network whose header is not printed yet
at_network == n <= Len(TRANSACTIONS) /\ t = 0

\* the inner loop is at a tx
at_tx == n <= Len(TRANSACTIONS) /\ t >= 1

\* after the header: first tx of the network, or next network if it has none
enter_network ==
    IF Len(TRANSACTIONS[n][2].transactions) >= 1
    THEN n' = n /\ t' = 1
    ELSE n' = n + 1 /\ t' = 0

\* the unhandled exception of a failed open, write or close, as it leaves
\* generate_tx_json and __main__
raise_OSError(network_key, tx) ==
    [op |-> "raise", what |-> "OSError", network |-> network_key,
     token |-> tx.token, filename |-> filename_of(network_key, tx)]

\* __main__ prints the banner and calls generate_tx_json
Main ==
    /\ pc \in {"idle", "done", "failed"}
    /\ runs < MaxRuns
    /\ runs' = runs + 1
    /\ prev' = pc
    /\ startFiles' = files
    /\ trace' = <<[op |-> "print", what |-> "banner"]>>
    /\ pc' = "tx_json"
    /\ n' = 1
    /\ t' = 0
    /\ UNCHANGED <<TRANSACTIONS, CONTRACT_ADDRESS, files>>

\* outer loop of generate_tx_json: the network header
tx_json_network ==
    /\ pc = "tx_json"
    /\ at_network
    /\ trace' = Append(trace,
           [op |-> "print", what |-> "network",
            network |-> TRANSACTIONS[n][1],
            name |-> TRANSACTIONS[n][2].name,
            chainId |-> TRANSACTIONS[n][2].chainId])
    /\ enter_network
    /\ UNCHANGED <<TRANSACTIONS, CONTRACT_ADDRESS, files, startFiles, prev,
                   runs, pc>>

\* the inner loop with tx['token'] lowercased in place before the name is built
tx_json_write_in_place ==
    /\ pc = "tx_json"
    /\ at_tx
    /\ LET network_key == TRANSACTIONS[n][1]
           network_data == TRANSACTIONS[n][2]
           tx == [network_data.transactions[t] EXCEPT !.token = lower(@)]
           filename == "tx_" \o network_key \o "_" \o text(tx.token) \o ".json"
           content == json_dump(transaction(CONTRACT_ADDRESS, network_data, tx), 2)
       IN  /\ TRANSACTIONS' = [TRANSACTIONS EXCEPT ![n][2].transactions[t] = tx]
           /\ files' = write_file(files, filename, content)
           /\ trace' = trace \o
                <<[op |-> "write", network |-> network_key, token |-> tx.token,
                   filename |-> filename, content |-> content],
                  [op |-> "print", what |-> "created", network |-> network_key,
                   filename |-> filename, token |-> text(tx.token)]>>
    /\ n' = next_n(TRANSACTIONS, n, t)
    /\ t' = next_t(TRANSACTIONS, n, t)
    /\ UNCHANGED <<CONTRACT_ADDRESS, startFiles, prev, runs, pc>>

\* inner loop of generate_tx_json: the file is written and reported
tx_json_write ==
    /\ pc = "tx_json"
    /\ at_tx
    /\ n' = next_n(TRANSACTIONS, n, t)
    /\ t' = next_t(TRANSACTIONS, n, t)
    /\ LET network_key == TRANSACTIONS[n][1]
           network_data == TRANSACTIONS[n][2]
           tx == network_data.transactions[t]
           filename == filename_of(network_key, tx)
           content == json_dump(transaction(CONTRACT_ADDRESS, network_data, tx), 2)
       IN  /\ files' = write_file(files, filename, content)
           /\ trace' = trace \o
                <<[op |-> "write", network |-> network_key, token |-> tx.token,
                   filename |-> filename, content |-> content],
                  [op |-> "print", what |-> "created", network |-> network_key,
                   filename |-> filename, token |-> text(tx.token)]>>
    /\ UNCHANGED <<TRANSACTIONS, CONTRACT_ADDRESS, startFiles, prev, runs, pc>>

\* open() raises inside try/except: the error is reported and the loop goes on
tx_json_open_fails_caught ==
    /\ pc = "tx_json"
    /\ at_tx
    /\ trace' = Append(trace, raise_OSError(TRANSACTIONS[n][1],
                                            TRANSACTIONS[n][2].transactions[t]))
    /\ n' = next_n(TRANSACTIONS, n, t)
    /\ t' = next_t(TRANSACTIONS, n, t)
    /\ UNCHANGED <<TRANSACTIONS, CONTRACT_ADDRESS, files, startFiles, prev,
                   runs, pc>>

\* open() raises: nothing is created or truncated, the exception ends the run
tx_json_open_fails ==
    /\ pc = "tx_json"
    /\ at_tx
    /\ pc' = "failed"
    /\ trace' = Append(trace, raise_OSError(TRANSACTIONS[n][1],
                                            TRANSACTIONS[n][2].transactions[t]))
    /\ UNCHANGED <<TRANSACTIONS, CONTRACT_ADDRESS, files, startFiles, prev,
                   runs, n, t>>

\* a write or the close raises after open() truncated the file: the file
\* holds a proper prefix of the text (of at most MaxPartialChunks chunks),
\* the exception ends the run
tx_json_write_fails ==
    /\ pc = "tx_json"
    /\ at_tx
    /\ pc' = "failed"
    /\ LET network_key == TRANSACTIONS[n][1]
           network_data == TRANSACTIONS[n][2]
           tx == network_data.transactions[t]
           filename == filename_of(network_key, tx)
           content == json_dump(transaction(CONTRACT_ADDRESS, network_data, tx), 2)
       IN  \E k \in 0..(Len(content) - 1) :
              /\ k <= MaxPartialChunks
              /\ files' = write_file(files, filename, SubSeq(content, 1, k))
    /\ trace' = Append(trace, raise_OSError(TRANSACTIONS[n][1],
                                            TRANSACTIONS[n][2].transactions[t]))
    /\ UNCHANGED <<TRANSACTIONS, CONTRACT_ADDRESS, startFiles, prev, runs,
                   n, t>>

(***************************************************************************)
(* generate_copy_paste                                                     *)
(***************************************************************************)
\* generate_tx_json returned; generate_copy_paste prints its title
copy_paste_begin ==
    /\ pc = "tx_json"
    /\ loops_done
    /\ pc' = "copy_paste"
    /\ n' = 1
    /\ t' = 0
    /\ trace' = Append(trace, [op |-> "print", what |-> "copy_paste_title"])
    /\ UNCHANGED <<TRANSACTIONS, CONTRACT_ADDRESS, files, startFiles, prev, runs>>

\* outer loop of generate_copy_paste: the network comment
copy_paste_network ==
    /\ pc = "copy_paste"
    /\ at_network
    /\ trace' = Append(trace,
           [op |-> "print", what |-> "copy_paste_network",
            network |-> TRANSACTIONS[n][1],
            name |-> TRANSACTIONS[n][2].name,
            chainId |-> TRANSACTIONS[n][2].chainId])
    /\ enter_network
    /\ UNCHANGED <<TRANSACTIONS, CONTRACT_ADDRESS, files, startFiles, prev,
                   runs, pc>>

\* the params object of the printed ethereum.request call
copy_paste_params(address, tx) ==
    << <<"from", [type |-> "expr", s |-> "ethereum.selectedAddress", i |-> 0]>>,
       <<"to", py_str(address)>>,
       <<"data", py_str(tx.data)>>,
       <<"value", py_str("0x0")>> >>

\* inner loop of generate_copy_paste: one snippet
copy_paste_snippet ==
    /\ pc = "copy_paste"
    /\ at_tx
    /\ LET tx == TRANSACTIONS[n][2].transactions[t]
       IN  trace' = Append(trace,
              [op |-> "print", what |-> "copy_paste_snippet",
               network |-> TRANSACTIONS[n][1], token |-> text(tx.token),
               method |-> "eth_sendTransaction",
               fields |-> copy_paste_params(CONTRACT_ADDRESS, tx)])
    /\ n' = next_n(TRANSACTIONS, n, t)
    /\ t' = next_t(TRANSACTIONS, n, t)
    /\ UNCHANGED <<TRANSACTIONS, CONTRACT_ADDRESS, files, startFiles, prev,
                   runs, pc>>

(***************************************************************************)
(* generate_curl_commands                                                  *)
(***************************************************************************)
\* generate_copy_paste returned; generate_curl_commands prints its title
curl_begin ==
    /\ pc = "copy_paste"
    /\ loops_done
    /\ pc' = "curl"
    /\ n' = 1
    /\ t' = 0
    /\ trace' = Append(trace, [op |-> "print", what |-> "curl_title"])
    /\ UNCHANGED <<TRANSACTIONS, CONTRACT_ADDRESS, files, startFiles, prev, runs>>

\* outer loop of generate_curl_commands: the network comment (name only)
curl_network ==
    /\ pc = "curl"
    /\ at_network
    /\ trace' = Append(trace,
           [op |-> "print", what |-> "curl_network",
            network |-> TRANSACTIONS[n][1],
            name |-> TRANSACTIONS[n][2].name])
    /\ enter_network
    /\ UNCHANGED <<TRANSACTIONS, CONTRACT_ADDRESS, files, startFiles, prev,
                   runs, pc>>

\* the body with the address and the calldata exchanged
curl_body_swapped(address, tx) ==
    << <<"to", py_str(tx.data)>>,
       <<"data", py_str(address)>>,
       <<"value", py_str("0x0")>> >>

\* the JSON body of the printed curl command
curl_body(address, tx) ==
    << <<"to", py_str(address)>>,
       <<"data", py_str(tx.data)>>,
       <<"value", py_str("0x0")>> >>

\* inner loop of generate_curl_commands: one command
curl_command ==
    /\ pc = "curl"
    /\ at_tx
    /\ LET tx == TRANSACTIONS[n][2].transactions[t]
       IN  trace' = Append(trace,
              [op |-> "print", what |-> "curl_command",
               network |-> TRANSACTIONS[n][1], token |-> text(tx.token),
               endpoint |-> "YOUR_WALLET_API_ENDPOINT",
               fields |-> curl_body(CONTRACT_ADDRESS, tx)])
    /\ n' = next_n(TRANSACTIONS, n, t)
    /\ t' = next_t(TRANSACTIONS, n, t)
    /\ UNCHANGED <<TRANSACTIONS, CONTRACT_ADDRESS, files, startFiles, prev,
                   runs, pc>>

\* generate_curl_commands returned; __main__ prints the closing lines
MainDone ==
    /\ pc = "curl"
    /\ loops_done
    /\ pc' = "done"
    /\ trace' = Append(trace, [op |-> "print", what |-> "ready"])
    /\ UNCHANGED <<TRANSACTIONS, CONTRACT_ADDRESS, files, startFiles, prev,
                   runs, n, t>>

(***************************************************************************)
(* Specification                                                           *)
(***************************************************************************)
Init ==
    /\ TRANSACTIONS = TransactionsLiteral
    /\ CONTRACT_ADDRESS = ContractAddressLiteral
    /\ files = <<>>
    /\ startFiles = <<>>
    /\ prev = "idle"
    /\ runs = 0
    /\ pc = "idle"
    /\ n = 1
    /\ t = 0
    /\ trace = <<>>

\* a step of the running process
RunStep ==
    \/ tx_json_open_fails
    \/ tx_json_write_fails
    \/ tx_json_network
    \/ tx_json_write
    \/ copy_paste_begin
    \/ copy_paste_network
    \/ copy_paste_snippet
    \/ curl_begin
    \/ curl_network
    \/ curl_command
    \/ MainDone

Next ==
    \/ Main
    \/ RunStep

Spec == Init /\ [][Next]_vars

\* the interpreter keeps executing a started process until it ends; nothing
\* obliges anybody to start the script again
FairSpec == Spec /\ WF_vars(RunStep)

(***************************************************************************)
(* Reading a file back: json.load of the Python standard library, used to  *)
(* state what a file holds.  Whitespace is skipped; a text that is not one *)
(* complete object of str and int values does not parse.                   *)
(***************************************************************************)
\* the int of a digit sequence
RECURSIVE int_parse(_)
int_parse(digits) ==
    IF digits = <<>> THEN 0
    ELSE 10 * int_parse(SubSeq(digits, 1, Len(digits) - 1)) + digits[Len(digits)]

decode_value(c) ==
    IF c.kind = "string" THEN py_str(c.s) ELSE py_int(int_parse(c.digits))

\* d[key] = value on an insertion-ordered dict
dict_set(d, key, value) ==
    IF \E k \in 1..Len(d) : d[k][1] = key
    THEN [k \in 1..Len(d) |-> IF d[k][1] = key THEN <<key, value>> ELSE d[k]]
    ELSE Append(d, <<key, value>>)

JSONDecodeError == [ok |-> FALSE, obj |-> <<>>]

\* the items from chunk k on, acc holding the items read so far
RECURSIVE decode_items(_, _, _)
decode_items(c, k, acc) ==
    IF k + 2 > Len(c) THEN JSONDecodeError
    ELSE IF ~ (/\ c[k].kind = "string"
               /\ c[k + 1].kind = "key_separator"
               /\ c[k + 2].kind \in {"string", "number"}) THEN JSONDecodeError
    ELSE LET d == dict_set(acc, c[k].s, decode_value(c[k + 2]))
         IN  IF k + 3 <= Len(c) /\ c[k + 3].kind = "item_separator"
             THEN decode_items(c, k + 4, d)
             ELSE IF /\ k + 4 = Len(c)
                     /\ c[k + 3].kind = "newline"
                     /\ c[k + 4].kind = "close"
             THEN [ok |-> TRUE, obj |-> d]
             ELSE JSONDecodeError

json_load(c) ==
    IF c = <<chunk("empty_object", "", <<>>, 0)>> THEN [ok |-> TRUE, obj |-> <<>>]
    ELSE IF Len(c) >= 2 /\ c[1].kind = "open" /\ c[2].kind = "newline"
    THEN decode_items(c, 3, <<>>)
    ELSE JSONDecodeError

\* keys of a dict, and the value under a key it has
keys(d) == {d[k][1] : k \in 1..Len(d)}
get(d, key) == d[CHOOSE k \in 1..Len(d) : d[k][1] = key][2]

(***************************************************************************)
(* Vocabulary of the properties                                            *)
(***************************************************************************)
\* positions (network index, tx index) of the records of the table
Records ==
    UNION {{<<i, j>> : j \in 1..Len(TRANSACTIONS[i][2].transactions)} :
              i \in 1..Len(TRANSACTIONS)}

\* positions in the trace of the events of one kind
Writes == {k \in 1..Len(trace) : trace[k].op = "write"}
Prints(what) ==
    {k \in 1..Len(trace) : trace[k].op = "print" /\ trace[k].what = what}

\* positions of the writes issued for the record at (i, j)
WritesOf(i, j) ==
    {k \in Writes :
        /\ trace[k].network = TRANSACTIONS[i][1]
        /\ trace[k].token = TRANSACTIONS[i][2].transactions[j].token}

\* generate_tx_json has returned in the current process
JsonEmitted == pc \in {"copy_paste", "curl", "done"}

\* the lowercase spelling of the token symbols of the table
LowercaseSymbol(token) ==
    CASE token = <<"E", "T", "H">> -> "eth"
      [] token = <<"U", "S", "D", "C">> -> "usdc"
      [] token = <<"U", "S", "D", "T">> -> "usdt"

\* the file name the convention gives a record
ConventionName(network_key, token) ==
    "tx_" \o network_key \o "_" \o LowercaseSymbol(token) \o ".json"

(***************************************************************************)
(* C1  After generate_tx_json has returned without a filesystem error, the *)
(* file written for each record parses to an object with exactly the keys  *)
(* to, value, data, chainId: to is the contract address, value is the      *)
(* string "0x0", data is the record's calldata, chainId is the integer     *)
(* chain ID of the record's network; tx_base_usdc.json holds the base/USDC *)
(* calldata and chainId 8453.                                              *)
(***************************************************************************)
C1_FileHoldsTransaction ==
    JsonEmitted =>
        /\ \A r \in Records :
              /\ WritesOf(r[1], r[2]) # {}
              /\ \A k \in WritesOf(r[1], r[2]) :
                    /\ trace[k].filename \in DOMAIN files
                    /\ LET parsed == json_load(files[trace[k].filename])
                           network_data == TRANSACTIONS[r[1]][2]
                       IN  /\ parsed.ok
                           /\ Len(parsed.obj) = 4
                           /\ keys(parsed.obj) = {"to", "value", "data", "chainId"}
                           /\ get(parsed.obj, "to") = py_str(ContractAddressLiteral)
                           /\ get(parsed.obj, "value") = py_str("0x0")
                           /\ get(parsed.obj, "data") =
                                 py_str(network_data.transactions[r[2]].data)
                           /\ get(parsed.obj, "chainId") = py_int(network_data.chainId)
        /\ "tx_base_usdc.json" \in DOMAIN files
        /\ LET o == json_load(files["tx_base_usdc.json"]).obj
           IN  /\ get(o, "to") = py_str("0x8B173c2E4C84b4bdD8c656F3d47Bc4259594Bd48")
               /\ get(o, "value") = py_str("0x0")
               /\ get(o, "data") = py_str("0xeb0835bf000000000000000000000000833589fcd6edb6e08f4c7c32d4f71b54bda02913")
               /\ get(o, "chainId") = py_int(8453)

\* a run that followed a failed one has emitted every file
C1_Witness ==
    /\ pc = "done"
    /\ prev = "failed"
    /\ Cardinality(Writes) = 12
    /\ json_load(files["tx_polygon_usdt.json"]).ok

(***************************************************************************)
(* C2  The name of every file generate_tx_json writes is                   *)
(* "tx_" + network_key + "_" + lowercase(token_symbol) + ".json", whatever *)
(* the calldata, the chain ID, the position in the iteration and the files *)
(* written before.                                                         *)
(***************************************************************************)
C2_FilenameConvention ==
    \A k \in Writes :
        /\ trace[k].filename = ConventionName(trace[k].network, trace[k].token)
        /\ trace[k + 1].op = "print"
        /\ trace[k + 1].what = "created"
        /\ trace[k + 1].filename = trace[k].filename

\* files of two networks and of all three tokens have been named
C2_Witness ==
    /\ pc = "tx_json"
    /\ n = 3
    /\ runs = 2
    /\ \E k \in Writes : trace[k].filename = "tx_base_usdt.json"
    /\ \E k \in Writes : trace[k].filename = "tx_arbitrum_eth.json"

(***************************************************************************)
(* C3  A run that follows a completed run leaves the working directory as  *)
(* it found it: every write of it replaces a file of the first run by the  *)
(* same content, and it creates no file the first run did not create.      *)
(***************************************************************************)
C3_SecondRunIdempotent ==
    (prev = "done" /\ pc # "failed") =>
        /\ files = startFiles
        /\ \A k \in Writes :
              /\ trace[k].filename \in DOMAIN startFiles
              /\ trace[k].content = startFiles[trace[k].filename]

\* the second of two completed runs has ended
C3_Witness ==
    /\ prev = "done"
    /\ pc = "done"
    /\ runs = 2
    /\ Cardinality(Writes) = 12
    /\ Cardinality(DOMAIN files) = 12

(***************************************************************************)
(* C4  Every emitted text parses, the parsed object has its keys in the    *)
(* order to, value, data, chainId, and dumping the parsed object again     *)
(* with indent 2 gives the emitted text; the same holds of the file as     *)
(* long as the run has not failed.                                         *)
(***************************************************************************)
KeyOrder(d) == [k \in 1..Len(d) |-> d[k][1]]

RoundTrips(c) ==
    LET parsed == json_load(c)
    IN  /\ parsed.ok
        /\ KeyOrder(parsed.obj) = <<"to", "value", "data", "chainId">>
        /\ json_dump(parsed.obj, 2) = c

C4_RoundTrip ==
    \A k \in Writes :
        /\ RoundTrips(trace[k].content)
        /\ pc # "failed" => RoundTrips(files[trace[k].filename])

\* texts with chain IDs of two, three, four and five digits were emitted
C4_Witness ==
    /\ pc = "curl"
    /\ \A id \in {10, 137, 8453, 42161} :
          \E k \in Writes :
             get(json_load(trace[k].content).obj, "chainId") = py_int(id)

(***************************************************************************)
(* C5  Calldata in the table, recipient and value of the transactions.     *)
(***************************************************************************)
DataOf(r) == TRANSACTIONS[r[1]][2].transactions[r[2]].data
TokenOf(r) == TRANSACTIONS[r[1]][2].transactions[r[2]].token
TransactionOf(r) ==
    transaction(CONTRACT_ADDRESS, TRANSACTIONS[r[1]][2],
                TRANSACTIONS[r[1]][2].transactions[r[2]])

SharedRecipientAndValue ==
    \A r \in Records :
        /\ get(TransactionOf(r), "to") = py_str(ContractAddressLiteral)
        /\ get(TransactionOf(r), "value") = py_str("0x0")

\* C5 as claimed: no two distinct records carry the same calldata, and all
\* records share the recipient and the value.
C5_CalldataUnique ==
    /\ \A r1, r2 \in Records : r1 # r2 => DataOf(r1) # DataOf(r2)
    /\ SharedRecipientAndValue

\* C5 as amended: two distinct records carry the same calldata only if both
\* are the ETH record of their network (so calldata is unique within every
\* network and among the USDC and USDT records), the four ETH records carry
\* one and the same calldata, and all records share the recipient and the
\* value.
C5_CalldataUniqueButEth ==
    /\ \A r1, r2 \in Records :
          (r1 # r2 /\ DataOf(r1) = DataOf(r2)) =>
              /\ r1[1] # r2[1]
              /\ TokenOf(r1) = <<"E", "T", "H">>
              /\ TokenOf(r2) = <<"E", "T", "H">>
    /\ \A r1, r2 \in Records :
          (TokenOf(r1) = <<"E", "T", "H">> /\ TokenOf(r2) = <<"E", "T", "H">>)
              => DataOf(r1) = DataOf(r2)
    /\ SharedRecipientAndValue

\* the table is in use: the files of two ETH records hold the same calldata
C5_Witness ==
    /\ pc = "copy_paste"
    /\ runs = 1
    /\ get(json_load(files["tx_arbitrum_eth.json"]).obj, "data")
         = get(json_load(files["tx_polygon_eth.json"]).obj, "data")
    /\ DataOf(<<1, 1>>) = DataOf(<<4, 1>>)

(***************************************************************************)
(* C6  A failed open, write or close ends the run at that record: the      *)
(* error is the last effect of the process, the writes made are those of   *)
(* the records before it in iteration order, no snippet and no curl        *)
(* command is printed, the files written before hold what was written, no  *)
(* file but the failing record's differs from what the process found or    *)
(* wrote, and the process takes no further step (the next step is a new    *)
(* process, which leaves the files alone).                                 *)
(***************************************************************************)
Raises == {k \in 1..Len(trace) : trace[k].op = "raise"}

\* the records in iteration order
RECURSIVE RecordOrderFrom(_, _)
RecordOrderFrom(i, j) ==
    IF i > Len(TRANSACTIONS) THEN <<>>
    ELSE IF j > Len(TRANSACTIONS[i][2].transactions) THEN RecordOrderFrom(i + 1, 1)
    ELSE <<[network |-> TRANSACTIONS[i][1],
            token |-> TRANSACTIONS[i][2].transactions[j].token]>>
         \o RecordOrderFrom(i, j + 1)
RecordOrder == RecordOrderFrom(1, 1)

IsWrite(e) == e.op = "write"
WriteSeq ==
    LET w == SelectSeq(trace, IsWrite)
    IN  [k \in 1..Len(w) |-> [network |-> w[k].network, token |-> w[k].token]]

FailedRun ==
    /\ pc = "failed"
    /\ Raises = {Len(trace)}
    /\ LET e == trace[Len(trace)]
           m == Len(WriteSeq)
       IN  /\ m < Len(RecordOrder)
           /\ WriteSeq = SubSeq(RecordOrder, 1, m)
           /\ [network |-> e.network, token |-> e.token] = RecordOrder[m + 1]
           /\ \A k \in Writes :
                 /\ trace[k].filename # e.filename
                 /\ trace[k].filename \in DOMAIN files
                 /\ files[trace[k].filename] = trace[k].content
           /\ \A f \in (DOMAIN files \cup DOMAIN startFiles) \ {e.filename} :
                 \/ \E k \in Writes : trace[k].filename = f
                 \/ f \in DOMAIN files /\ f \in DOMAIN startFiles
                                       /\ files[f] = startFiles[f]
    /\ \A k \in 1..Len(trace) :
          trace[k].op = "print" =>
              trace[k].what \in {"banner", "network", "created"}

C6_FailureState == (Raises # {} \/ pc = "failed") => FailedRun

C6_FailureStep ==
    pc = "failed" => (pc' = "tx_json" /\ runs' = runs + 1 /\ files' = files)

C6_WriteFailureEndsRun == [](C6_FailureState) /\ [][C6_FailureStep]_vars

\* the write of the third record of the second network failed after the
\* file was truncated, in a run that followed a completed run
C6_Witness ==
    /\ pc = "failed"
    /\ prev = "done"
    /\ n = 2
    /\ t = 3
    /\ Len(WriteSeq) = 5
    /\ files["tx_base_usdt.json"] # startFiles["tx_base_usdt.json"]

(***************************************************************************)
(* C7  TRANSACTIONS and CONTRACT_ADDRESS keep their initial values in      *)
(* every state of every run, a failed run included.                        *)
(***************************************************************************)
C7_TableImmutable ==
    /\ TRANSACTIONS =
         << <<"arbitrum", arbitrum[2]>>, <<"base", base[2]>>,
            <<"optimism", optimism[2]>>, <<"polygon", polygon[2]>> >>
    /\ TRANSACTIONS[2][2].chainId = 8453
    /\ TRANSACTIONS[2][2].transactions[2].token = <<"U", "S", "D", "C">>
    /\ CONTRACT_ADDRESS = "0x8B173c2E4C84b4bdD8c656F3d47Bc4259594Bd48"

\* a second run has gone through all three emitters after a failed first run
C7_Witness ==
    /\ pc = "done"
    /\ prev = "failed"
    /\ runs = 2
    /\ Prints("curl_command") # {}
    /\ Prints("copy_paste_snippet") # {}

(***************************************************************************)
(* C8  Fields of the console snippets and of the curl bodies.              *)
(***************************************************************************)
Snippets == Prints("copy_paste_snippet") \cup Prints("curl_command")

\* the object in the file written, in this run, for the record of a snippet
FileObjectOf(e) ==
    LET k == CHOOSE k \in Writes :
                /\ trace[k].network = e.network
                /\ text(trace[k].token) = e.token
    IN  json_load(files[trace[k].filename]).obj

Agrees(e, o, key) ==
    /\ key \in keys(e.fields)
    /\ get(e.fields, key) = get(o, key)

\* C8 as claimed: every snippet and every curl body holds to, value, data
\* and chainId with the values of the record's file.
C8_SnippetsHoldAllFields ==
    \A k \in Snippets :
        LET o == FileObjectOf(trace[k])
        IN  \A key \in {"to", "value", "data", "chainId"} :
               Agrees(trace[k], o, key)

\* C8 as amended: every snippet and every curl body holds to, data and
\* value with the values of the record's file, and holds no chainId; the
\* chain ID is printed only in the comment that precedes the snippets of a
\* network, and not at all by generate_curl_commands.
C8_SnippetsHoldToDataValue ==
    /\ \A k \in Snippets :
          LET o == FileObjectOf(trace[k])
          IN  /\ \A key \in {"to", "value", "data"} : Agrees(trace[k], o, key)
              /\ "chainId" \notin keys(trace[k].fields)
    /\ \A k \in Prints("copy_paste_snippet") :
          \E h \in Prints("copy_paste_network") :
             /\ h < k
             /\ trace[h].network = trace[k].network
             /\ py_int(trace[h].chainId) = get(FileObjectOf(trace[k]), "chainId")
    /\ \A k \in Prints("curl_title") \cup Prints("curl_network")
                                       \cup Prints("curl_command") :
          "chainId" \notin DOMAIN trace[k]

\* snippets and curl commands of all records have been printed
C8_Witness ==
    /\ pc = "done"
    /\ runs = 1
    /\ Cardinality(Prints("copy_paste_snippet")) = 12
    /\ Cardinality(Prints("curl_command")) = 12

(***************************************************************************)
(* C9  A run is one sequential pass: the file writes, the console snippets *)
(* and the curl commands come in this order, each kind once per record in  *)
(* table order; a run that meets no filesystem error has issued exactly    *)
(* these when it ends, and every started run ends (done, or failed at a    *)
(* filesystem error).                                                      *)
(***************************************************************************)
NetworkOrder == <<"arbitrum", "base", "optimism", "polygon">>
TokenOrder == <<"ETH", "USDC", "USDT">>

\* kind for every record, networks in table order, tokens in list order
PassOf(kind) ==
    [k \in 1..(Len(NetworkOrder) * Len(TokenOrder)) |->
        [what |-> kind,
         network |-> NetworkOrder[((k - 1) \div Len(TokenOrder)) + 1],
         token |-> TokenOrder[((k - 1) % Len(TokenOrder)) + 1]]]

ExpectedEffects ==
    PassOf("write") \o PassOf("copy_paste_snippet") \o PassOf("curl_command")

IsEffect(e) ==
    \/ e.op = "write"
    \/ e.op = "print" /\ e.what \in {"copy_paste_snippet", "curl_command"}

Effects ==
    LET s == SelectSeq(trace, IsEffect)
    IN  [k \in 1..Len(s) |->
            IF s[k].op = "write"
            THEN [what |-> "write", network |-> s[k].network,
                  token |-> text(s[k].token)]
            ELSE [what |-> s[k].what, network |-> s[k].network,
                  token |-> s[k].token]]

C9_Order ==
    LET e == Effects
    IN  /\ Len(e) <= Len(ExpectedEffects)
        /\ e = SubSeq(ExpectedEffects, 1, Len(e))
        /\ pc = "done" => e = ExpectedEffects
        /\ pc = "copy_paste" => Len(e) >= Len(PassOf("write"))
        /\ pc = "curl" => Len(e) >= 2 * Len(PassOf("write"))

C9_SequentialRun ==
    /\ [](C9_Order)
    /\ [](pc = "tx_json" => <>(pc \in {"done", "failed"}))

\* a run has ended with all 36 effects issued
C9_Witness ==
    /\ pc = "done"
    /\ Len(Effects) = 36
    /\ Effects[13].what = "copy_paste_snippet"
    /\ Effects[25].what = "curl_command"

(***************************************************************************)
(* C10  Distinct records have distinct file names: within a run no file is *)
(* written twice, and once generate_tx_json has returned the directory     *)
(* holds exactly one file per record, 12 in all.                           *)
(***************************************************************************)
NameOf(r) ==
    filename_of(TRANSACTIONS[r[1]][1], TRANSACTIONS[r[1]][2].transactions[r[2]])

C10_FilenamesInjective ==
    /\ Cardinality({NameOf(r) : r \in Records}) = Cardinality(Records)
    /\ \A k1, k2 \in Writes :
          k1 # k2 => trace[k1].filename # trace[k2].filename
    /\ JsonEmitted =>
          /\ Cardinality(Records) = 12
          /\ Cardinality(DOMAIN files) = 12
          /\ DOMAIN files = {trace[k].filename : k \in Writes}

\* the first run has just written its last file
C10_Witness ==
    /\ pc = "tx_json"
    /\ n = 5
    /\ runs = 1
    /\ Cardinality(Writes) = 12
    /\ Cardinality(DOMAIN files) = 12
====
